---- MODULE Spec2Model ----
(***************************************************************************)
(* Model of the reconciliation controller of ktail (src/controller.go):    *)
(* the tailers registry guarded by the controller's mutex, the onAdd /     *)
(* onDelete / update handlers registered with the informer, addContainer,  *)
(* deleteContainer, and the goroutine spawned per ContainerTailer.         *)
(***************************************************************************)
EXTENDS Integers, Sequences, FiniteSets, TLC

\* ------------------------------------------------------------------------
\* Bounds of the model
\* ------------------------------------------------------------------------
MaxNotifs == 3

\* ------------------------------------------------------------------------
\* Universe of notifications
\* ------------------------------------------------------------------------
Threads == {1, 2}
SeqThreads == {1}

Namespace == "ns"
PodNames == {"p1"}
ContainerNames == {"c1", "c2"}
ContainerLists == {<< >>, <<"c2">>, <<"c1", "c2">>}
LabelSets == {{"app=x"}, {"app=y"}}

\* the configuration given to NewController
labelSelector == {"app=x"}
AcceptedByFilter == {"c1"}

NotPod ==
  [isPod |-> FALSE, namespace |-> "", name |-> "", labels |-> {}, containers |-> << >>]

Pod(name, labels, containers) ==
  [isPod |-> TRUE, namespace |-> Namespace, name |-> name, labels |-> labels,
   containers |-> containers]

\* labels.Selector.Matches for an equality selector
Matches(selector, labels) == selector \subseteq labels

\* the owner's filter predicate
filterFunc(pod, container) == container \in AcceptedByFilter

buildKey(pod, container) ==
  pod.namespace \o "/" \o pod.name \o "/" \o container

AllKeys == {buildKey(Pod(p, {}, << >>), c) : p \in PodNames, c \in ContainerNames}

KeysOfPod(pod) == {buildKey(pod, c) : c \in ContainerNames}

VARIABLES
  tailers,     \* ctl.tailers: key -> handle of the registered tailer
  mutex,       \* ctl.Mutex: 0 when free, else the handler path holding it
  workers,     \* per key, every ContainerTailer constructed so far, in order
  h,           \* per handler path: position and locals of the running handler
  cluster,     \* the watch source's pods: last snapshot and liveness per name
  delivered,   \* notifications delivered so far
  enterCalls,  \* enterFunc invocations per key
  exitCalls,   \* exitFunc invocations per key
  lastLock,    \* per key: the operation that took the mutex for it last
  run,         \* position of the caller of Controller.Run
  informer     \* the informer launched by Run and its watch subscription

vars ==
  <<tailers, mutex, workers, h, cluster, delivered, enterCalls, exitCalls,
    lastLock, run, informer>>

NoTailer == [key |-> "", n |-> 0]

Idle ==
  [pc |-> "idle", kind |-> "none", obj |-> NotPod, i |-> 0, any |-> FALSE,
   tailer |-> NoTailer, log |-> << >>]

NoPod == [seen |-> FALSE, live |-> FALSE, labels |-> {}, containers |-> << >>]

Init ==
  /\ tailers = << >>
  /\ mutex = 0
  /\ workers = [k \in AllKeys |-> << >>]
  /\ h = [t \in Threads |-> Idle]
  /\ cluster = [p \in PodNames |-> NoPod]
  /\ delivered = 0
  /\ enterCalls = [k \in AllKeys |-> 0]
  /\ exitCalls = [k \in AllKeys |-> 0]
  /\ lastLock = [k \in AllKeys |-> "none"]
  /\ run = "start"
  /\ informer = "idle"

\* ------------------------------------------------------------------------
\* Helpers
\* ------------------------------------------------------------------------
Container(t) == h[t].obj.containers[h[t].i]
Key(t) == buildKey(h[t].obj, Container(t))
Done(t) == [h[t] EXCEPT !.pc = "done"]
Registered(k) == k \in DOMAIN tailers

Snapshot(p) == Pod(p, cluster[p].labels, cluster[p].containers)

Start(kind, obj) ==
  [pc |-> kind, kind |-> kind, obj |-> obj, i |-> 0, any |-> FALSE,
   tailer |-> NoTailer, log |-> << >>]

\* a notification is handled on the first execution path that is free
CanDeliver(t) ==
  /\ informer = "running"
  /\ h[t].pc = "idle"
  /\ \A u \in Threads : u < t => h[u].pc # "idle"
  /\ delivered < MaxNotifs

Hand(t, kind, obj) ==
  /\ h' = [h EXCEPT ![t] = Start(kind, obj)]
  /\ delivered' = delivered + 1
  /\ UNCHANGED <<lastLock, run, informer, tailers, mutex, workers, enterCalls, exitCalls>>

\* ------------------------------------------------------------------------
\* The informer: notifications handed to AddFunc / UpdateFunc / DeleteFunc
\* ------------------------------------------------------------------------
DeliverAdd(t) ==
  /\ CanDeliver(t)
  /\ \E p \in PodNames, ls \in LabelSets, cs \in ContainerLists :
       /\ ~cluster[p].live
       /\ cluster' = [cluster EXCEPT ![p] =
                        [seen |-> TRUE, live |-> TRUE, labels |-> ls, containers |-> cs]]
       /\ Hand(t, "onAdd", Pod(p, ls, cs))

DeliverAddAgain(t) ==
  /\ CanDeliver(t)
  /\ \E p \in PodNames :
       /\ cluster[p].live
       /\ UNCHANGED cluster
       /\ Hand(t, "onAdd", Snapshot(p))

DeliverDelete(t) ==
  /\ CanDeliver(t)
  /\ \E p \in PodNames :
       /\ cluster[p].live
       /\ cluster' = [cluster EXCEPT ![p].live = FALSE]
       /\ Hand(t, "onDelete", Snapshot(p))

DeliverDeleteAgain(t) ==
  /\ CanDeliver(t)
  /\ \E p \in PodNames :
       /\ cluster[p].seen /\ ~cluster[p].live
       /\ UNCHANGED cluster
       /\ Hand(t, "onDelete", Snapshot(p))

DeliverUpdate(t) ==
  /\ CanDeliver(t)
  /\ \E p \in PodNames, ls \in LabelSets :
       /\ cluster[p].live
       /\ cluster' = [cluster EXCEPT ![p].labels = ls]
       /\ Hand(t, "onUpdate", Pod(p, ls, cluster[p].containers))

DeliverNotPod(t) ==
  /\ CanDeliver(t)
  /\ \E kind \in {"onAdd", "onDelete"} :
       /\ UNCHANGED cluster
       /\ Hand(t, kind, NotPod)

\* the handler function returns to the informer
handlerReturn(t) ==
  /\ h[t].pc = "done"
  /\ h' = [h EXCEPT ![t] = Idle]
  /\ UNCHANGED <<lastLock, run, informer, tailers, mutex, workers, cluster, delivered, enterCalls, exitCalls>>

\* ------------------------------------------------------------------------
\* onAdd
\* ------------------------------------------------------------------------
\* index of the first container the filter accepts, 0 when there is none
FirstAccepted(pod) ==
  LET hits == {j \in 1..Len(pod.containers) : filterFunc(pod, pod.containers[j])}
  IN  IF hits = {} THEN 0 ELSE CHOOSE j \in hits : \A m \in hits : j <= m

\* the filter calls of the first loop, which breaks at the first match
FilterCalls(pod) ==
  LET f == FirstAccepted(pod)
      n == IF f = 0 THEN Len(pod.containers) ELSE f
  IN  [j \in 1..n |-> <<"filter", pod.containers[j]>>]

\* variant: onAdd with the filter gate replaced by "the pod has containers"
onAdd_AnyDefaultsTrue(t) ==
  /\ h[t].pc = "onAdd"
  /\ LET pod == h[t].obj IN
       IF ~pod.isPod
         THEN h' = [h EXCEPT ![t] = Done(t)]
       ELSE IF ~Matches(labelSelector, pod.labels)
         THEN h' = [h EXCEPT ![t] = Done(t)]
       ELSE IF Len(pod.containers) > 0
         THEN h' = [h EXCEPT ![t] = [h[t] EXCEPT !.pc = "add_enter", !.i = 1,
                                       !.any = TRUE, !.log = FilterCalls(pod)]]
         ELSE h' = [h EXCEPT ![t] = [h[t] EXCEPT !.pc = "done",
                                       !.log = FilterCalls(pod)]]
  /\ UNCHANGED <<lastLock, run, informer, tailers, mutex, workers, cluster, delivered, enterCalls, exitCalls>>

\* variant: onAdd without the label selector test
onAdd_NoSelector(t) ==
  /\ h[t].pc = "onAdd"
  /\ LET pod == h[t].obj IN
       IF ~pod.isPod
         THEN h' = [h EXCEPT ![t] = Done(t)]
       ELSE IF FirstAccepted(pod) # 0
         THEN h' = [h EXCEPT ![t] = [h[t] EXCEPT !.pc = "add_enter", !.i = 1,
                                       !.any = TRUE, !.log = FilterCalls(pod)]]
         ELSE h' = [h EXCEPT ![t] = [h[t] EXCEPT !.pc = "done",
                                       !.log = FilterCalls(pod)]]
  /\ UNCHANGED <<lastLock, run, informer, tailers, mutex, workers, cluster, delivered, enterCalls, exitCalls>>

onAdd(t) ==
  /\ h[t].pc = "onAdd"
  /\ LET pod == h[t].obj IN
       IF ~pod.isPod
         THEN h' = [h EXCEPT ![t] = Done(t)]
       ELSE IF ~Matches(labelSelector, pod.labels)
         THEN h' = [h EXCEPT ![t] = Done(t)]
       ELSE IF FirstAccepted(pod) # 0
         THEN h' = [h EXCEPT ![t] = [h[t] EXCEPT !.pc = "add_enter", !.i = 1,
                                       !.any = TRUE, !.log = FilterCalls(pod)]]
         ELSE h' = [h EXCEPT ![t] = [h[t] EXCEPT !.pc = "done",
                                       !.log = FilterCalls(pod)]]
  /\ UNCHANGED <<lastLock, run, informer, tailers, mutex, workers, cluster, delivered, enterCalls, exitCalls>>

\* ------------------------------------------------------------------------
\* addContainer
\* ------------------------------------------------------------------------
\* variant: addContainer without the enterFunc call
addContainerEnter_Skipped(t) ==
  /\ h[t].pc = "add_enter"
  /\ h' = [h EXCEPT ![t] = [h[t] EXCEPT !.pc = "add_lock"]]
  /\ UNCHANGED <<lastLock, run, informer, tailers, mutex, workers, cluster, delivered, enterCalls, exitCalls>>

\* variant: addContainer taking the lock before it calls enterFunc
addContainerEnter_LockFirst(t) ==
  /\ h[t].pc = "add_enter"
  /\ mutex = 0
  /\ mutex' = t
  /\ enterCalls' = [enterCalls EXCEPT ![Key(t)] = @ + 1]
  /\ h' = [h EXCEPT ![t] = [h[t] EXCEPT !.pc = "add_lookup",
                              !.log = Append(@, <<"enter", Container(t)>>)]]
  /\ lastLock' = [lastLock EXCEPT ![Key(t)] = "add"]
  /\ UNCHANGED <<run, informer, tailers, workers, cluster, delivered, exitCalls>>

addContainerEnter(t) ==
  /\ h[t].pc = "add_enter"
  /\ enterCalls' = [enterCalls EXCEPT ![Key(t)] = @ + 1]
  /\ h' = [h EXCEPT ![t] = [h[t] EXCEPT !.pc = "add_lock",
                              !.log = Append(@, <<"enter", Container(t)>>)]]
  /\ UNCHANGED <<lastLock, run, informer, tailers, mutex, workers, cluster, delivered, exitCalls>>

\* variant: Lock that does not wait for the mutex to be free
addContainerLock_NoExclusion(t) ==
  /\ h[t].pc = "add_lock"
  /\ mutex' = t
  /\ h' = [h EXCEPT ![t] = [h[t] EXCEPT !.pc = "add_lookup"]]
  /\ lastLock' = [lastLock EXCEPT ![Key(t)] = "add"]
  /\ UNCHANGED <<run, informer, tailers, workers, cluster, delivered, enterCalls, exitCalls>>

addContainerLock(t) ==
  /\ h[t].pc = "add_lock"
  /\ mutex = 0
  /\ mutex' = t
  /\ h' = [h EXCEPT ![t] = [h[t] EXCEPT !.pc = "add_lookup"]]
  /\ lastLock' = [lastLock EXCEPT ![Key(t)] = "add"]
  /\ UNCHANGED <<run, informer, tailers, workers, cluster, delivered, enterCalls, exitCalls>>

\* cell, view: the goroutine's `container` is a pointer to the loop variable
\* of onAdd's second range loop; cell is the handler path whose loop still
\* runs (0 once it has ended) and view the container now held in the variable
NewContainerTailer(pod, container) ==
  [pod |-> pod.name, container |-> container, st |-> "new", stops |-> 0, errors |-> 0,
   cell |-> 0, view |-> "", reported |-> ""]

\* the range loop of handler path t stores its next element in `container`
rangeNext(t, c) ==
  [k \in AllKeys |->
     [n \in 1..Len(workers[k]) |->
        IF workers[k][n].cell = t THEN [workers[k][n] EXCEPT !.view = c]
                                  ELSE workers[k][n]]]

\* the range loop of handler path t ends: `container` keeps its last element
rangeEnd(t) ==
  [k \in AllKeys |->
     [n \in 1..Len(workers[k]) |->
        IF workers[k][n].cell = t THEN [workers[k][n] EXCEPT !.cell = 0]
                                  ELSE workers[k][n]]]

\* variant: addContainer without the lookup of the key
addContainerLookup_AlwaysCreates(t) ==
  /\ h[t].pc = "add_lookup"
  /\ workers' = [workers EXCEPT ![Key(t)] =
                   Append(@, NewContainerTailer(h[t].obj, Container(t)))]
  /\ h' = [h EXCEPT ![t] = [h[t] EXCEPT !.pc = "add_go",
                              !.tailer = [key |-> Key(t), n |-> Len(workers[Key(t)]) + 1]]]
  /\ UNCHANGED <<lastLock, run, informer, tailers, mutex, cluster, delivered, enterCalls, exitCalls>>

addContainerLookup(t) ==
  /\ h[t].pc = "add_lookup"
  /\ IF ~Registered(Key(t))
       THEN /\ workers' = [workers EXCEPT ![Key(t)] =
                             Append(@, NewContainerTailer(h[t].obj, Container(t)))]
            /\ h' = [h EXCEPT ![t] = [h[t] EXCEPT !.pc = "add_go",
                        !.tailer = [key |-> Key(t), n |-> Len(workers[Key(t)]) + 1]]]
       ELSE /\ workers' = workers
            /\ h' = [h EXCEPT ![t] = [h[t] EXCEPT !.pc = "add_unlock",
                                        !.tailer = NoTailer]]
  /\ UNCHANGED <<lastLock, run, informer, tailers, mutex, cluster, delivered, enterCalls, exitCalls>>

\* variant: addContainer releasing the mutex before it registers the tailer
addContainerGo_UnlocksEarly(t) ==
  /\ h[t].pc = "add_go"
  /\ workers' = [workers EXCEPT ![h[t].tailer.key][h[t].tailer.n] =
                   [@ EXCEPT !.st = "spawned", !.cell = t, !.view = Container(t)]]
  /\ mutex' = 0
  /\ h' = [h EXCEPT ![t] = [h[t] EXCEPT !.pc = "add_register"]]
  /\ UNCHANGED <<lastLock, run, informer, tailers, cluster, delivered, enterCalls, exitCalls>>

addContainerGo(t) ==
  /\ h[t].pc = "add_go"
  /\ workers' = [workers EXCEPT ![h[t].tailer.key][h[t].tailer.n] =
                   [@ EXCEPT !.st = "spawned", !.cell = t, !.view = Container(t)]]
  /\ h' = [h EXCEPT ![t] = [h[t] EXCEPT !.pc = "add_register"]]
  /\ UNCHANGED <<lastLock, run, informer, tailers, mutex, cluster, delivered, enterCalls, exitCalls>>

addContainerRegister(t) ==
  /\ h[t].pc = "add_register"
  /\ tailers' = [k \in DOMAIN tailers \cup {Key(t)} |->
                   IF k = Key(t) THEN h[t].tailer ELSE tailers[k]]
  /\ h' = [h EXCEPT ![t] = [h[t] EXCEPT !.pc = "add_unlock"]]
  /\ UNCHANGED <<lastLock, run, informer, mutex, workers, cluster, delivered, enterCalls, exitCalls>>

\* variant: onAdd leaving its second loop after the first container
addContainerUnlock_Break(t) ==
  /\ h[t].pc = "add_unlock"
  /\ mutex' = 0
  /\ h' = [h EXCEPT ![t] = Done(t)]
  /\ workers' = rangeEnd(t)
  /\ UNCHANGED <<lastLock, run, informer, tailers, cluster, delivered, enterCalls, exitCalls>>

addContainerUnlock(t) ==
  /\ h[t].pc = "add_unlock"
  /\ mutex' = 0
  /\ IF h[t].i < Len(h[t].obj.containers)
       THEN /\ h' = [h EXCEPT ![t] = [h[t] EXCEPT !.pc = "add_enter", !.i = @ + 1]]
            /\ workers' = rangeNext(t, h[t].obj.containers[h[t].i + 1])
       ELSE /\ h' = [h EXCEPT ![t] = Done(t)]
            /\ workers' = rangeEnd(t)
  /\ UNCHANGED <<lastLock, run, informer, tailers, cluster, delivered, enterCalls, exitCalls>>

\* ------------------------------------------------------------------------
\* onDelete and deleteContainer
\* ------------------------------------------------------------------------
\* variant: onDelete applying the label selector as onAdd does
onDelete_ChecksSelector(t) ==
  /\ h[t].pc = "onDelete"
  /\ IF /\ h[t].obj.isPod
        /\ Matches(labelSelector, h[t].obj.labels)
        /\ Len(h[t].obj.containers) > 0
       THEN h' = [h EXCEPT ![t] = [h[t] EXCEPT !.pc = "del_lock", !.i = 1]]
       ELSE h' = [h EXCEPT ![t] = Done(t)]
  /\ UNCHANGED <<lastLock, run, informer, tailers, mutex, workers, cluster, delivered, enterCalls, exitCalls>>

onDelete(t) ==
  /\ h[t].pc = "onDelete"
  /\ IF h[t].obj.isPod /\ Len(h[t].obj.containers) > 0
       THEN h' = [h EXCEPT ![t] = [h[t] EXCEPT !.pc = "del_lock", !.i = 1]]
       ELSE h' = [h EXCEPT ![t] = Done(t)]
  /\ UNCHANGED <<lastLock, run, informer, tailers, mutex, workers, cluster, delivered, enterCalls, exitCalls>>

\* variant: deleteContainer entering its critical section without waiting
deleteContainerLock_NoExclusion(t) ==
  /\ h[t].pc = "del_lock"
  /\ mutex' = t
  /\ h' = [h EXCEPT ![t] = [h[t] EXCEPT !.pc = "del_lookup"]]
  /\ lastLock' = [lastLock EXCEPT ![Key(t)] = "del"]
  /\ UNCHANGED <<run, informer, tailers, workers, cluster, delivered, enterCalls, exitCalls>>

deleteContainerLock(t) ==
  /\ h[t].pc = "del_lock"
  /\ mutex = 0
  /\ mutex' = t
  /\ h' = [h EXCEPT ![t] = [h[t] EXCEPT !.pc = "del_lookup"]]
  /\ lastLock' = [lastLock EXCEPT ![Key(t)] = "del"]
  /\ UNCHANGED <<run, informer, tailers, workers, cluster, delivered, enterCalls, exitCalls>>

\* variant: deleteContainer without delete(ctl.tailers, key)
deleteContainerLookup_KeepsEntry(t) ==
  /\ h[t].pc = "del_lookup"
  /\ IF Registered(Key(t))
       THEN h' = [h EXCEPT ![t] = [h[t] EXCEPT !.pc = "del_stop",
                                     !.tailer = tailers[Key(t)]]]
       ELSE h' = [h EXCEPT ![t] = [h[t] EXCEPT !.pc = "del_unlock",
                                     !.tailer = NoTailer]]
  /\ UNCHANGED <<lastLock, run, informer, tailers, mutex, workers, cluster, delivered, enterCalls, exitCalls>>

\* variant: deleteContainer calling exitFunc also when the key is absent
deleteContainerLookup_ExitAlways(t) ==
  /\ h[t].pc = "del_lookup"
  /\ IF Registered(Key(t))
       THEN /\ tailers' = [k \in DOMAIN tailers \ {Key(t)} |-> tailers[k]]
            /\ h' = [h EXCEPT ![t] = [h[t] EXCEPT !.pc = "del_stop",
                                        !.tailer = tailers[Key(t)]]]
       ELSE /\ tailers' = tailers
            /\ h' = [h EXCEPT ![t] = [h[t] EXCEPT !.pc = "del_exit",
                                        !.tailer = NoTailer]]
  /\ UNCHANGED <<lastLock, run, informer, mutex, workers, cluster, delivered, enterCalls, exitCalls>>

deleteContainerLookup(t) ==
  /\ h[t].pc = "del_lookup"
  /\ IF Registered(Key(t))
       THEN /\ tailers' = [k \in DOMAIN tailers \ {Key(t)} |-> tailers[k]]
            /\ h' = [h EXCEPT ![t] = [h[t] EXCEPT !.pc = "del_stop",
                                        !.tailer = tailers[Key(t)]]]
       ELSE /\ tailers' = tailers
            /\ h' = [h EXCEPT ![t] = [h[t] EXCEPT !.pc = "del_unlock",
                                        !.tailer = NoTailer]]
  /\ UNCHANGED <<lastLock, run, informer, mutex, workers, cluster, delivered, enterCalls, exitCalls>>

\* variant: deleteContainer without the call of tailer.Stop()
deleteContainerStop_NoStop(t) ==
  /\ h[t].pc = "del_stop"
  /\ h' = [h EXCEPT ![t] = [h[t] EXCEPT !.pc = "del_exit"]]
  /\ UNCHANGED <<lastLock, run, informer, tailers, mutex, workers, cluster, delivered, enterCalls, exitCalls>>

deleteContainerStop(t) ==
  /\ h[t].pc = "del_stop"
  /\ workers' = [workers EXCEPT ![h[t].tailer.key][h[t].tailer.n].stops = @ + 1]
  /\ h' = [h EXCEPT ![t] = [h[t] EXCEPT !.pc = "del_exit"]]
  /\ UNCHANGED <<lastLock, run, informer, tailers, mutex, cluster, delivered, enterCalls, exitCalls>>

deleteContainerExit(t) ==
  /\ h[t].pc = "del_exit"
  /\ exitCalls' = [exitCalls EXCEPT ![Key(t)] = @ + 1]
  /\ h' = [h EXCEPT ![t] = [h[t] EXCEPT !.pc = "del_unlock",
                              !.log = Append(@, <<"exit", Container(t)>>)]]
  /\ UNCHANGED <<lastLock, run, informer, tailers, mutex, workers, cluster, delivered, enterCalls>>

\* variant: deleteContainer returning without Unlock
deleteContainerUnlock_NoUnlock(t) ==
  /\ h[t].pc = "del_unlock"
  /\ IF h[t].i < Len(h[t].obj.containers)
       THEN h' = [h EXCEPT ![t] = [h[t] EXCEPT !.pc = "del_lock", !.i = @ + 1]]
       ELSE h' = [h EXCEPT ![t] = Done(t)]
  /\ UNCHANGED <<lastLock, run, informer, tailers, mutex, workers, cluster, delivered, enterCalls, exitCalls>>

deleteContainerUnlock(t) ==
  /\ h[t].pc = "del_unlock"
  /\ mutex' = 0
  /\ IF h[t].i < Len(h[t].obj.containers)
       THEN h' = [h EXCEPT ![t] = [h[t] EXCEPT !.pc = "del_lock", !.i = @ + 1]]
       ELSE h' = [h EXCEPT ![t] = Done(t)]
  /\ UNCHANGED <<lastLock, run, informer, tailers, workers, cluster, delivered, enterCalls, exitCalls>>

\* ------------------------------------------------------------------------
\* UpdateFunc: func(old, new) {}
\* ------------------------------------------------------------------------
\* variant: UpdateFunc wired to the add handler
onUpdate_AsAdd(t) ==
  /\ h[t].pc = "onUpdate"
  /\ h' = [h EXCEPT ![t] = [h[t] EXCEPT !.pc = "onAdd"]]
  /\ UNCHANGED <<lastLock, run, informer, tailers, mutex, workers, cluster, delivered, enterCalls, exitCalls>>

onUpdate(t) ==
  /\ h[t].pc = "onUpdate"
  /\ h' = [h EXCEPT ![t] = Done(t)]
  /\ UNCHANGED <<lastLock, run, informer, tailers, mutex, workers, cluster, delivered, enterCalls, exitCalls>>

\* ------------------------------------------------------------------------
\* The goroutine of a tailer: if err := tailer.Run(); err != nil { errorFunc }
\* ------------------------------------------------------------------------
tailerRun(k, n) ==
  /\ workers[k][n].st = "spawned"
  /\ workers' = [workers EXCEPT ![k][n].st = "running"]
  /\ UNCHANGED <<lastLock, run, informer, tailers, mutex, h, cluster, delivered, enterCalls, exitCalls>>

\* variant: the goroutine calling errorFunc whatever Run returns
tailerReturn_ReportsNil(k, n) ==
  /\ workers[k][n].st = "running"
  /\ \/ workers' = [workers EXCEPT ![k][n].st = "exited", ![k][n].errors = @ + 1]
     \/ workers' = [workers EXCEPT ![k][n] =
            [@ EXCEPT !.st = "failed", !.errors = @ + 1, !.reported = workers[k][n].view]]
  /\ UNCHANGED <<lastLock, run, informer, tailers, mutex, h, cluster, delivered, enterCalls, exitCalls>>

\* variant: a failed Run treated as a delete of the key
tailerReturn_Unregisters(k, n) ==
  /\ workers[k][n].st = "running"
  /\ \/ /\ workers' = [workers EXCEPT ![k][n].st = "exited"]
        /\ tailers' = tailers
     \/ /\ workers' = [workers EXCEPT ![k][n] =
            [@ EXCEPT !.st = "failed", !.errors = @ + 1, !.reported = workers[k][n].view]]
        /\ tailers' = [j \in DOMAIN tailers \ {k} |-> tailers[j]]
  /\ UNCHANGED <<lastLock, run, informer, mutex, h, cluster, delivered, enterCalls, exitCalls>>

tailerReturn(k, n) ==
  /\ workers[k][n].st = "running"
  /\ \/ workers' = [workers EXCEPT ![k][n].st = "exited"]
     \/ workers' = [workers EXCEPT ![k][n] =
            [@ EXCEPT !.st = "failed", !.errors = @ + 1, !.reported = workers[k][n].view]]
  /\ UNCHANGED <<lastLock, run, informer, tailers, mutex, h, cluster, delivered, enterCalls, exitCalls>>

\* ------------------------------------------------------------------------
\* Controller.Run
\* ------------------------------------------------------------------------
\* the buffer of stopCh: the channel is made in Run and handed only to
\* informer.Run, which receives from it; nothing sends on it or closes it
stopCh == << >>

\* go informer.Run(stopCh), then the receive <-stopCh
Run ==
  /\ run \in {"start", "blocked"}
  /\ IF run = "start"
       THEN informer' = "running" /\ run' = "blocked"
       ELSE Len(stopCh) > 0 /\ informer' = informer /\ run' = "returned"
  /\ UNCHANGED <<tailers, mutex, workers, h, cluster, delivered, enterCalls,
                 exitCalls, lastLock>>

\* the watch subscription is ended from outside the controller: the
\* informer hands no further notification to the handlers
informerStop ==
  /\ informer = "running"
  /\ informer' = "terminated"
  /\ UNCHANGED <<tailers, mutex, workers, h, cluster, delivered, enterCalls,
                 exitCalls, lastLock, run>>

\* ------------------------------------------------------------------------
\* Specifications
\* ------------------------------------------------------------------------
Handler(t) ==
  \/ DeliverAdd(t)
  \/ DeliverAddAgain(t)
  \/ DeliverDelete(t)
  \/ DeliverDeleteAgain(t)
  \/ DeliverUpdate(t)
  \/ DeliverNotPod(t)
  \/ handlerReturn(t)
  \/ onAdd(t)
  \/ addContainerEnter(t)
  \/ addContainerLock(t)
  \/ addContainerLookup(t)
  \/ addContainerGo(t)
  \/ addContainerRegister(t)
  \/ addContainerUnlock(t)
  \/ onDelete(t)
  \/ deleteContainerLock(t)
  \/ deleteContainerLookup(t)
  \/ deleteContainerStop(t)
  \/ deleteContainerExit(t)
  \/ deleteContainerUnlock(t)
  \/ onUpdate(t)

Tailer ==
  \E k \in AllKeys : \E n \in 1..Len(workers[k]) :
    tailerRun(k, n) \/ tailerReturn(k, n)

\* handlers on overlapping execution paths
Next == (\E t \in Threads : Handler(t)) \/ Tailer \/ Run

Spec == Init /\ [][Next]_vars

\* the informer's single delivery path: one notification handled at a time
NextSeq == (\E t \in SeqThreads : Handler(t)) \/ Tailer \/ Run

SpecSeq == Init /\ [][NextSeq]_vars

\* the single delivery path with a watch subscription that can be ended from
\* outside; every step that stays possible is eventually taken
NextRun == NextSeq \/ informerStop

FairRun == Init /\ [][NextRun]_vars /\ WF_vars(NextRun)

\* a step of the handler running on path t (not the hand-over of a
\* notification): a handler that can take a step is scheduled
Step(t) == h[t].pc # "idle" /\ Handler(t)

\* overlapping handlers, each one scheduled
FairSpec == Spec /\ \A t \in Threads : WF_vars(Step(t))

\* every tailer that can have been constructed: one per add notification
WorkerIds == 1..MaxNotifs

\* the goroutine of a spawned tailer is scheduled and calls Run
goRun(k, n) == n \in 1..Len(workers[k]) /\ tailerRun(k, n)

\* ContainerTailer.Stop is a request that stays: Run returns promptly once
\* it was made, also when it was made before Run began
stopReturn(k, n) ==
  n \in 1..Len(workers[k]) /\ workers[k][n].stops > 0 /\ tailerReturn(k, n)

\* the single delivery path with handler and goroutines scheduled
FairSeq ==
  /\ SpecSeq
  /\ \A t \in SeqThreads : WF_vars(Step(t))
  /\ \A k \in AllKeys : \A n \in WorkerIds :
       WF_vars(goRun(k, n)) /\ WF_vars(stopReturn(k, n))

\* ------------------------------------------------------------------------
\* Vocabulary of the properties
\* ------------------------------------------------------------------------
Created(k) == Len(workers[k])
StoppedOf(k) == {n \in 1..Len(workers[k]) : workers[k][n].stops > 0}
LiveOf(k) == {n \in 1..Len(workers[k]) : workers[k][n].stops = 0}
Count(log, e) == Cardinality({j \in 1..Len(log) : log[j] = e})
Stepped(t) == h'[t] # h[t]
PodKeys(pod) == {buildKey(pod, pod.containers[j]) : j \in 1..Len(pod.containers)}
InAddContainer(t) ==
  h[t].pc \in {"add_lock", "add_lookup", "add_go", "add_register", "add_unlock"}

\* ------------------------------------------------------------------------
\* C1. Under every interleaving of the handlers, each key has at most one
\* tailer that was created and not yet asked to stop, and a step that
\* creates a tailer creates it for a key that has no registry entry.
\* ------------------------------------------------------------------------
C1_NoDuplicate ==
  /\ [](\A k \in AllKeys : Cardinality(LiveOf(k)) <= 1)
  /\ [][\A k \in AllKeys :
          Len(workers'[k]) > Len(workers[k]) => ~Registered(k)]_vars

C1_Witness ==
  \E k \in AllKeys :
    /\ Registered(k)
    /\ Created(k) = 2
    /\ Cardinality(LiveOf(k)) = 1

\* ------------------------------------------------------------------------
\* C2. Whenever the mutex is free, the tailers of a key that were created
\* and not yet asked to stop are exactly the registry entry of that key:
\* one if the key is registered, none otherwise.
\* ------------------------------------------------------------------------
C2_NoOrphan ==
  mutex = 0 =>
    \A k \in AllKeys :
      {[key |-> k, n |-> n] : n \in LiveOf(k)} =
        IF Registered(k) THEN {tailers[k]} ELSE {}

C2_Witness ==
  /\ mutex = 0
  /\ \E t \in Threads, u \in Threads :
       /\ t # u
       /\ h[t].kind = "onAdd" /\ h[t].pc = "done" /\ h[t].any
       /\ h[u].kind = "onDelete" /\ h[u].pc = "done"
       /\ h[u].obj.name = h[t].obj.name
       /\ \E k \in PodKeys(h[t].obj) : ~Registered(k) /\ StoppedOf(k) # {}

\* ------------------------------------------------------------------------
\* C3. On the informer's delivery path, when onAdd has handled a pod that
\* matches the selector and has a container the filter accepts, every
\* container of the pod is registered and the enter hook was called once
\* for each container of the pod.
\* ------------------------------------------------------------------------
Accepted(pod) ==
  pod.isPod /\ Matches(labelSelector, pod.labels) /\ FirstAccepted(pod) # 0

C3_AcceptedPodRegistersAll ==
  \A t \in Threads :
    (h[t].pc = "done" /\ h[t].kind = "onAdd" /\ Accepted(h[t].obj)) =>
      \A j \in 1..Len(h[t].obj.containers) :
        /\ Registered(buildKey(h[t].obj, h[t].obj.containers[j]))
        /\ Count(h[t].log, <<"enter", h[t].obj.containers[j]>>) = 1

C3_Witness ==
  \E t \in Threads :
    /\ h[t].pc = "done" /\ h[t].kind = "onAdd" /\ Accepted(h[t].obj)
    /\ \E j \in 1..Len(h[t].obj.containers) :
         /\ ~filterFunc(h[t].obj, h[t].obj.containers[j])
         /\ Registered(buildKey(h[t].obj, h[t].obj.containers[j]))

\* ------------------------------------------------------------------------
\* C4. When onAdd handles a selector-matching pod none of whose containers
\* the filter accepts (an empty container list included), the handler ends
\* without changing the registry, creating a tailer or calling the enter
\* hook.
\* ------------------------------------------------------------------------
RejectedByFilter(pod) ==
  pod.isPod /\ Matches(labelSelector, pod.labels) /\ FirstAccepted(pod) = 0

C4_RejectedPodNoEffect ==
  [][\A t \in Threads :
       (Stepped(t) /\ h[t].pc = "onAdd" /\ RejectedByFilter(h[t].obj)) =>
         /\ h'[t].pc = "done"
         /\ \A c \in ContainerNames : Count(h'[t].log, <<"enter", c>>) = 0
         /\ UNCHANGED <<tailers, workers, enterCalls, exitCalls>>]_vars

C4_Witness ==
  \E t \in Threads :
    /\ h[t].pc = "done" /\ h[t].kind = "onAdd" /\ RejectedByFilter(h[t].obj)
    /\ h[t].obj.containers # << >>
    /\ h[t].log = FilterCalls(h[t].obj)
    /\ PodKeys(h[t].obj) \cap DOMAIN tailers = {}

\* ------------------------------------------------------------------------
\* C5. When onAdd handles a pod whose labels do not match the selector, the
\* handler ends without changing the registry, creating a tailer or
\* calling any hook.
\* ------------------------------------------------------------------------
C5_SelectorMismatchNoEffect ==
  [][\A t \in Threads :
       (Stepped(t) /\ h[t].pc = "onAdd" /\ h[t].obj.isPod
          /\ ~Matches(labelSelector, h[t].obj.labels)) =>
         /\ h'[t].pc = "done"
         /\ h'[t].log = << >>
         /\ UNCHANGED <<tailers, workers, enterCalls, exitCalls>>]_vars

C5_Witness ==
  \E t \in Threads :
    /\ h[t].pc = "done" /\ h[t].kind = "onAdd" /\ h[t].obj.isPod
    /\ ~Matches(labelSelector, h[t].obj.labels)
    /\ FirstAccepted(h[t].obj) # 0
    /\ h[t].log = << >>

\* ------------------------------------------------------------------------
\* C6. Under every interleaving, no tailer is asked to stop more than once,
\* the exit hook has fired once per stopped tailer of a key, a delete that
\* found the key has removed it and stopped exactly the tailer that was
\* registered, and a delete that did not find it fires no exit hook.
\* ------------------------------------------------------------------------
C6_DeleteStopsOnce ==
  /\ \A k \in AllKeys : \A n \in 1..Len(workers[k]) : workers[k][n].stops <= 1
  /\ mutex = 0 => \A k \in AllKeys : exitCalls[k] = Cardinality(StoppedOf(k))
  /\ \A t \in Threads :
       h[t].pc = "del_unlock" =>
         IF h[t].tailer # NoTailer
           THEN /\ ~Registered(Key(t))
                /\ h[t].tailer.key = Key(t)
                /\ workers[Key(t)][h[t].tailer.n].stops = 1
                /\ exitCalls[Key(t)] = Cardinality(StoppedOf(Key(t)))
                /\ Count(h[t].log, <<"exit", Container(t)>>) = 1
           ELSE Count(h[t].log, <<"exit", Container(t)>>) = 0

C6_Witness ==
  \E t \in Threads :
    /\ h[t].pc = "del_unlock" /\ h[t].tailer = NoTailer
    /\ exitCalls[Key(t)] = 1
    /\ Cardinality(StoppedOf(Key(t))) = 1

\* ------------------------------------------------------------------------
\* C7. deleteContainer for a key that has no registry entry changes
\* nothing: the registry and the tailers stay as they are, no tailer is
\* asked to stop and no hook fires.
\* ------------------------------------------------------------------------
DeleteOfAbsent(t) ==
  \/ h[t].pc = "del_lookup" /\ ~Registered(Key(t))
  \/ h[t].pc = "del_unlock" /\ h[t].tailer = NoTailer

C7_DeleteAbsentNoOp ==
  [][\A t \in Threads :
       (Stepped(t) /\ DeleteOfAbsent(t)) =>
         /\ h'[t].pc \in {"del_unlock", "del_lock", "done"}
         /\ h'[t].log = h[t].log
         /\ UNCHANGED <<tailers, workers, enterCalls, exitCalls>>]_vars

C7_Witness ==
  \E t \in Threads :
    /\ h[t].pc = "del_unlock" /\ h[t].tailer = NoTailer
    /\ Created(Key(t)) = 0
    /\ exitCalls[Key(t)] = 0
    /\ h[t].log = << >>

\* ------------------------------------------------------------------------
\* C8. addContainer for a key that is already registered calls the enter
\* hook again, creates no tailer, spawns no goroutine and leaves the
\* registered handle of the key as it is.
\* ------------------------------------------------------------------------
Lifecycle ==
  [k \in AllKeys |->
     [n \in 1..Len(workers[k]) |->
        <<workers[k][n].st, workers[k][n].stops, workers[k][n].errors>>]]

C8_ReAddIdempotent ==
  [][\A t \in Threads :
       Stepped(t) =>
         /\ (h[t].pc = "add_enter" /\ Registered(Key(t))) =>
              /\ enterCalls'[Key(t)] = enterCalls[Key(t)] + 1
              /\ h'[t].pc = "add_lock"
         /\ (h[t].pc = "add_lookup" /\ Registered(Key(t))) =>
              /\ h'[t].pc = "add_unlock"
              /\ UNCHANGED <<tailers, workers>>
         /\ (h[t].pc = "add_unlock" /\ h[t].tailer = NoTailer) =>
              UNCHANGED <<tailers, Lifecycle>>]_vars

C8_Witness ==
  \E t \in Threads :
    /\ h[t].pc = "add_unlock" /\ h[t].tailer = NoTailer
    /\ Registered(Key(t))
    /\ enterCalls[Key(t)] >= 2
    /\ Created(Key(t)) = 1

\* ------------------------------------------------------------------------
\* C9 as stated: once the handlers have finished, the enter hook was called
\* for a key as many times as tailers were created for that key.
\* ------------------------------------------------------------------------
Quiescent == \A t \in Threads : h[t].pc \in {"idle", "done"}

C9_EnterEqualsCreated ==
  Quiescent => \A k \in AllKeys : enterCalls[k] = Created(k)

\* ------------------------------------------------------------------------
\* C9 as amended: the enter hook is called once for each container that
\* addContainer is called on, registered or not, so the enter hook was
\* called for a key at least as many times as tailers were created for it.
\* ------------------------------------------------------------------------
C9_EnterAtLeastCreated ==
  /\ \A k \in AllKeys : enterCalls[k] >= Created(k)
  /\ \A t \in Threads :
       InAddContainer(t) => Count(h[t].log, <<"enter", Container(t)>>) = 1

C9_Witness ==
  /\ Quiescent
  /\ \E k \in AllKeys :
       /\ Created(k) = 1
       /\ enterCalls[k] = 2

\* ------------------------------------------------------------------------
\* C10. On the informer's delivery path, when onDelete has handled a pod,
\* no key of that pod (same namespace and pod name) is registered, whatever
\* the labels of the pod and the filter say at that time.
\* ------------------------------------------------------------------------
C10_DeleteTearsDownPod ==
  \A t \in Threads :
    (h[t].pc = "done" /\ h[t].kind = "onDelete" /\ h[t].obj.isPod) =>
      KeysOfPod(h[t].obj) \cap DOMAIN tailers = {}

C10_Witness ==
  \E t \in Threads :
    /\ h[t].pc = "done" /\ h[t].kind = "onDelete" /\ h[t].obj.isPod
    /\ ~Matches(labelSelector, h[t].obj.labels)
    /\ \E k \in PodKeys(h[t].obj) : StoppedOf(k) # {}

\* ------------------------------------------------------------------------
\* C11 as stated: a handler path never calls a hook (filter, enter, exit)
\* while it holds the mutex.
\* ------------------------------------------------------------------------
C11_NoHookUnderLock ==
  [][\A t \in Threads :
       (Stepped(t) /\ Len(h'[t].log) > Len(h[t].log)) => mutex # t]_vars

\* ------------------------------------------------------------------------
\* C12. The error hook is called exactly once for a tailer whose Run
\* returned an error and never for one whose Run returned nil, it is called
\* from the tailer's goroutine, and the return of Run creates no tailer and
\* changes no registry entry.
\* ------------------------------------------------------------------------
Terminated(k, n) == workers[k][n].st \in {"exited", "failed"}

C12_FailureReportedOnce ==
  /\ [](\A k \in AllKeys : \A n \in 1..Len(workers[k]) :
          workers[k][n].errors = IF workers[k][n].st = "failed" THEN 1 ELSE 0)
  /\ [][\A k \in AllKeys : \A n \in 1..Len(workers[k]) :
          (workers'[k][n].st # workers[k][n].st /\ Terminated(k, n)') =>
            /\ workers[k][n].st = "running"
            /\ UNCHANGED <<tailers, h, mutex>>
            /\ \A j \in AllKeys : Len(workers'[j]) = Len(workers[j])]_vars

C12_Witness ==
  \E k \in AllKeys :
    /\ Registered(k)
    /\ Created(k) = 1
    /\ workers[k][tailers[k].n].st = "failed"
    /\ workers[k][tailers[k].n].errors = 1

\* ------------------------------------------------------------------------
\* C13. A key becomes registered only by a step of an add that passed the
\* gates and unregistered only by a step of a delete of that key; while a
\* key is registered with a tailer whose Run has returned, every step keeps
\* it registered and creates no tailer for it, unless it is a delete of
\* that key.
\* ------------------------------------------------------------------------
KeyIs(t, k) == h[t].i >= 1 /\ Key(t) = k

C13_KeyStateMachine ==
  [][\A k \in AllKeys :
       /\ (~Registered(k) /\ Registered(k)') =>
            \E t \in Threads :
              Stepped(t) /\ h[t].kind = "onAdd" /\ Accepted(h[t].obj) /\ KeyIs(t, k)
       /\ (Registered(k) /\ ~Registered(k)') =>
            \E t \in Threads :
              Stepped(t) /\ h[t].kind = "onDelete" /\ KeyIs(t, k)
       /\ (Registered(k) /\ Terminated(k, tailers[k].n)) =>
            \/ Registered(k)' /\ Len(workers'[k]) = Len(workers[k])
            \/ \E t \in Threads :
                 Stepped(t) /\ h[t].kind = "onDelete" /\ KeyIs(t, k)]_vars

C13_Witness ==
  \E t \in Threads :
    /\ h[t].pc = "add_unlock" /\ h[t].tailer = NoTailer
    /\ Registered(Key(t))
    /\ Terminated(Key(t), tailers[Key(t)].n)
    /\ Created(Key(t)) = 1

\* ------------------------------------------------------------------------
\* C14. When add and delete handlers for one key overlap, then whenever no
\* critical section for the key is open, the key is registered exactly if
\* addContainer was the last to take the mutex for it, a registered key has
\* exactly one tailer that was not asked to stop (the registered one), an
\* unregistered key has none, and no tailer is asked to stop twice.
\* ------------------------------------------------------------------------
HeldFor(k) == \E t \in Threads : mutex = t /\ KeyIs(t, k)

C14_LockOrderDecides ==
  \A k \in AllKeys :
    /\ ~HeldFor(k) =>
         /\ Registered(k) <=> lastLock[k] = "add"
         /\ Registered(k) => LiveOf(k) = {tailers[k].n}
         /\ ~Registered(k) => LiveOf(k) = {}
    /\ \A n \in 1..Len(workers[k]) : workers[k][n].stops <= 1

C14_Witness ==
  \E t \in Threads, u \in Threads :
    /\ delivered = 2 /\ mutex = 0
    /\ h[t].pc = "done" /\ h[t].kind = "onAdd"
    /\ h[u].pc = "done" /\ h[u].kind = "onDelete" /\ h[u].log = << >>
    /\ Len(h[t].obj.containers) = 2
    /\ \A k \in PodKeys(h[t].obj) : Registered(k) /\ lastLock[k] = "add"

\* ------------------------------------------------------------------------
\* C15 as stated: once the watch subscription has been ended from outside,
\* Run returns to its caller.
\* ------------------------------------------------------------------------
C15_RunReturnsOnTermination == (informer = "terminated") ~> (run = "returned")

\* ------------------------------------------------------------------------
\* C16. Handling an update notification leaves the registry and the
\* tailers unchanged, stops no tailer and calls no hook.
\* ------------------------------------------------------------------------
C16_UpdateNoEffect ==
  [][\A t \in Threads :
       (Stepped(t) /\ h[t].kind = "onUpdate") =>
         /\ h'[t].pc \in {"done", "idle"}
         /\ h'[t].log = << >>
         /\ UNCHANGED <<tailers, workers, mutex, enterCalls, exitCalls>>]_vars

C16_Witness ==
  \E t \in Threads :
    /\ h[t].pc = "done" /\ h[t].kind = "onUpdate"
    /\ ~Matches(labelSelector, h[t].obj.labels)
    /\ PodKeys(h[t].obj) # {}
    /\ PodKeys(h[t].obj) \subseteq DOMAIN tailers

\* ------------------------------------------------------------------------
\* C17 as stated: the error hook of a failed tailer is called with the
\* container the tailer was constructed for.
\* ------------------------------------------------------------------------
C17_ErrorHookOwnContainer ==
  \A k \in AllKeys : \A n \in 1..Len(workers[k]) :
    workers[k][n].st = "failed" => workers[k][n].reported = workers[k][n].container

\* ------------------------------------------------------------------------
\* C18. Every tailer that a delete removed from the registry eventually
\* has its Run returned, also when Stop was called before the goroutine
\* spawned by addContainer had begun Run.
\* ------------------------------------------------------------------------
Deleted(k, n) ==
  /\ n \in 1..Len(workers[k])
  /\ \E t \in Threads :
       /\ h[t].pc \in {"del_stop", "del_exit", "del_unlock"}
       /\ h[t].tailer = [key |-> k, n |-> n]

HasReturned(k, n) == n \in 1..Len(workers[k]) /\ Terminated(k, n)

EnterLog(t) == SelectSeq(h[t].log, LAMBDA e : e[1] = "enter")
ExitLog(t) == SelectSeq(h[t].log, LAMBDA e : e[1] = "exit")
Pos(t, c) == CHOOSE j \in 1..Len(h[t].obj.containers) : h[t].obj.containers[j] = c

C19_Order ==
  \A t \in Threads :
    /\ (h[t].kind = "onAdd" /\ h[t].i >= 1) =>
         LET m == IF h[t].pc = "add_enter" THEN h[t].i - 1 ELSE h[t].i
         IN  /\ Len(EnterLog(t)) = m
             /\ \A j \in 1..m : EnterLog(t)[j] = <<"enter", h[t].obj.containers[j]>>
    /\ (h[t].kind = "onDelete" /\ h[t].i >= 1) =>
         /\ h[t].log = ExitLog(t)
         /\ \A a \in 1..Len(h[t].log) :
              /\ Pos(t, h[t].log[a][2]) <= h[t].i
              /\ \A b \in 1..Len(h[t].log) :
                   a < b => Pos(t, h[t].log[a][2]) < Pos(t, h[t].log[b][2])
    /\ h[t].pc = "add_lock" => mutex # t
    /\ h[t].pc \in {"add_go", "add_register"} =>
         enterCalls[Key(t)] >= h[t].tailer.n

C19_HookOrdering ==
  /\ []C19_Order
  /\ [][\A t \in Threads :
          (Stepped(t) /\ Len(EnterLog(t)') > Len(EnterLog(t))) =>
            /\ mutex # t /\ mutex' # t
            /\ UNCHANGED <<tailers, workers>>]_vars

C19_Witness ==
  \E t \in Threads :
    /\ h[t].pc = "done" /\ h[t].kind = "onDelete"
    /\ h[t].log = << <<"exit", "c1">>, <<"exit", "c2">> >>
    /\ enterCalls = [k \in AllKeys |-> 1]

\* ------------------------------------------------------------------------
\* C20. Per key, exit hook calls <= Stop calls <= tailers created <= enter
\* hook calls in every state, Stop calls exceed exit hook calls only by the
\* deleteContainer calls that are between Stop and the exit hook, a handler
\* that has completed does not hold the mutex, and every handler that was
\* started eventually completes.
\* ------------------------------------------------------------------------
StopCalls(k) == Cardinality(StoppedOf(k))
BetweenStopAndExit(k) == {t \in Threads : h[t].pc = "del_exit" /\ Key(t) = k}

C20_Pairing ==
  /\ \A k \in AllKeys :
       /\ StopCalls(k) = exitCalls[k] + Cardinality(BetweenStopAndExit(k))
       /\ StopCalls(k) <= Created(k)
       /\ Created(k) <= enterCalls[k]
  /\ \A t \in Threads : h[t].pc \in {"idle", "done"} => mutex # t

C20_PairingAndProgress ==
  /\ []C20_Pairing
  /\ \A t \in Threads : (h[t].pc # "idle") ~> (h[t].pc = "done" /\ mutex # t)

C20_Witness ==
  \E t \in Threads, u \in Threads :
    /\ t # u
    /\ h[t].pc = "done" /\ h[t].kind = "onDelete" /\ Len(h[t].log) = 2
    /\ h[u].pc = "done" /\ h[u].kind = "onAdd" /\ Len(EnterLog(u)) = 2
    /\ mutex = 0
    /\ \A k \in PodKeys(h[t].obj) : exitCalls[k] = 1 /\ enterCalls[k] = 2 /\ Created(k) = 1

====
